---- MODULE Spec2Model ----
(***************************************************************************)
(* A model of the immigration migration engine                             *)
(* (packages/immigration/src/index.ts): the Migrate facade (list, history, *)
(* migrate, acquire) and the filesystem store FS_STORAGE (.migrate.json    *)
(* and its .lock sentinel file).                                           *)
(*                                                                         *)
(* Migration names are modelled as the integers 1..MaxFile, ordered as the *)
(* file names are ordered by String comparison.  NoName (0) is the empty   *)
(* string "", which is smaller than every name; Undef (-1) is the          *)
(* JavaScript value undefined.                                             *)
(***************************************************************************)
EXTENDS Integers, Sequences, FiniteSets, TLC

(* ------------------------------ bounds -------------------------------- *)

\* Number of migration files (".js") the directory can hold.
MaxFile == 3
\* maxWait of acquire, in units of retryWait.
MaxWait == 1
\* Largest explicit value of the `check` option (besides its default).
MaxCheck == 1
\* Largest explicit value of the `count` option of list and history.
MaxCount == 2
\* Number of update and remove calls issued on one store instance.
MaxCalls == 3

(* ------------------------- program constants -------------------------- *)

\* "" : the default of `to`
NoName == 0
\* undefined
Undef == -1
\* the default of `check`
DefaultCheck == 50

Names == 1..MaxFile
\* A directory entry whose extension is not the configured one.
OtherEntry == MaxFile + 1
Entries == Names \cup {OtherEntry}

\* The processes that may call Migrate.migrate on the same store.
AllProcs == {1, 2}

(* --------------------------- array helpers ---------------------------- *)

Min2(a, b) == IF a < b THEN a ELSE b
Max2(a, b) == IF a > b THEN a ELSE b

\* Array.prototype.sort() of a set of distinct names.
RECURSIVE Sort(_)
Sort(S) ==
  IF S = {} THEN <<>>
  ELSE LET m == CHOOSE x \in S : \A y \in S : x <= y
       IN <<m>> \o Sort(S \ {m})

\* Array.prototype.indexOf: 0-based, -1 when absent.
IndexOf(s, x) ==
  IF \E i \in 1..Len(s) : s[i] = x
  THEN (CHOOSE i \in 1..Len(s) : s[i] = x /\ \A j \in 1..(i - 1) : s[j] /= x) - 1
  ELSE -1

\* Array.prototype.slice(start, end) for 0 <= start and 0 <= end.
Slice(s, start, end) == SubSeq(s, start + 1, Min2(end, Len(s)))

\* Array.prototype.reverse.
Reverse(s) == [i \in 1..Len(s) |-> s[Len(s) + 1 - i]]

\* JavaScript truthiness of an optional string / number.
Truthy(x) == x /= Undef /\ x /= NoName

Range(s) == {s[i] : i \in 1..Len(s)}

(* ----------------------------- Migrate.list --------------------------- *)

\* extname(filename) === this.extension
HasExtension(e) == e \in Names

ListOptions(count, gte, lte, reverse) ==
  [count |-> count, gte |-> gte, lte |-> lte, reverse |-> reverse]

\* The value of e(x), with x evaluated once: the only element of the set.
The(S) == CHOOSE v \in S : TRUE

\* Migrate.list, from the sorted files of the directory on.
ListFrom(files, o) ==
  LET startIndex == IF Truthy(o.gte) THEN IndexOf(files, o.gte) ELSE 0
      endIndex == IF Truthy(o.lte) THEN IndexOf(files, o.lte) ELSE Len(files) - 1
      window == Slice(files, startIndex, endIndex + 1)
      ordered == IF o.reverse THEN Reverse(window) ELSE window
      limited == IF Truthy(o.count) THEN Slice(ordered, 0, o.count) ELSE ordered
  IN IF startIndex = -1 \/ endIndex = -1
     THEN [err |-> TRUE, files |-> <<>>]
     ELSE [err |-> FALSE, files |-> limited]

\* Migrate.list: [err |-> TRUE] when it throws "does not exist in migrations".
List(entries, o) ==
  The({ListFrom(files, o) : files \in {Sort({e \in entries : HasExtension(e)})}})

(* ------------------------- FS_STORAGE (store) ------------------------- *)

\* The contents of .migrate.json: for every name "absent", or the
\* `valid` flag of its entry.
EmptyStore == [n \in Names |-> "absent"]

Recorded(contents) == {n \in Names : contents[n] /= "absent"}

\* toExecution
ToExecution(name, value) == [name |-> name, valid |-> (value = "valid")]

\* FS_STORAGE history(options)
History(contents, o) ==
  LET keys == Sort({key \in Recorded(contents) :
                      /\ ~(o.gte /= Undef /\ key < o.gte)
                      /\ ~(o.lte /= Undef /\ key > o.lte)})
      history == [i \in 1..Len(keys) |-> ToExecution(keys[i], contents[keys[i]])]
      ordered == IF o.reverse THEN Reverse(history) ELSE history
  IN Slice(ordered, 0, IF o.count /= Undef THEN o.count ELSE Len(ordered))

\* Mutant: update() writes valid = true whatever it is given.
StoreUpdate_AlwaysValid(contents, name, valid) ==
  [contents EXCEPT ![name] = "valid"]

\* FS_STORAGE update(name, valid, date): contents[name] = { valid, date }
StoreUpdate(contents, name, valid) ==
  [contents EXCEPT ![name] = IF valid THEN "valid" ELSE "invalid"]

\* Mutant: remove() leaves the entry in place.
StoreRemove_Keeps(contents, name) == contents

\* FS_STORAGE remove(name): delete contents[name]
StoreRemove(contents, name) == [contents EXCEPT ![name] = "absent"]

\* Mutant: the lock file is opened without the exclusive flag.
LockAttempt_NotExclusive(exists) == "acquired"

\* Mutant: unlock() leaves the lock file in place.
UnlockFile_Keeps(exists) == exists

\* FS_STORAGE lock(): fs.open(lockfile, "wx") succeeds iff the file is absent;
\* EEXIST becomes a LockRetryError.
LockAttempt(exists) == IF exists THEN "LockRetryError" ELSE "acquired"

\* FS_STORAGE unlock(): fs.unlink(lockfile), errors ignored.  The result is
\* whether the lock file exists afterwards.
UnlockFile(exists) == FALSE

(* ------------------- Migrate.migrate: shouldTry ----------------------- *)

IsDown(c) == c.direction = "down"

\* Mutant: shouldTry reads the whole history of the range.
HistoryQuery_NoCount(c) ==
  ListOptions(Undef, IF IsDown(c) THEN c.to ELSE Undef, Undef, TRUE)

\* The history query of shouldTry: the `check` newest records.
HistoryQuery(c) ==
  ListOptions(c.check, IF IsDown(c) THEN c.to ELSE Undef, Undef, TRUE)

\* latest?.name
LatestName(h) == IF h = <<>> THEN Undef ELSE h[1].name

\* Mutant: the walk does not report a file that has no execution.
CheckPair_NoNotRun(h, files, i) ==
  IF i > Len(h) THEN "ok"
  ELSE IF i > Len(files) \/ files[i] /= h[i].name THEN "not_found"
  ELSE IF ~h[i].valid THEN "invalid" ELSE "ok"

\* Mutant: the walk does not report an execution that has no file.
CheckPair_NoNotFound(h, files, i) ==
  IF i > Len(h) \/ (IF i <= Len(files) THEN files[i] ELSE NoName) > h[i].name
  THEN "not_run"
  ELSE IF ~h[i].valid THEN "invalid" ELSE "ok"

\* Mutant: the walk does not look at the `valid` flag.
CheckPair_IgnoresValid(h, files, i) ==
  IF i > Len(h) \/ (IF i <= Len(files) THEN files[i] ELSE NoName) > h[i].name
  THEN "not_run"
  ELSE IF i > Len(files) \/ files[i] < h[i].name
  THEN "not_found"
  ELSE "ok"

\* One iteration of the zipLongest walk over (execution, file).
CheckPair(h, files, i) ==
  LET hasExecution == i <= Len(h)
      hasFile == i <= Len(files)
  IN IF ~hasExecution \/ (IF hasFile THEN files[i] ELSE NoName) > h[i].name
     THEN "not_run"
     ELSE IF ~hasFile \/ files[i] < h[i].name
     THEN "not_found"
     ELSE IF ~h[i].valid THEN "invalid" ELSE "ok"

\* The consistency validation of shouldTry against the directory: "ok", or
\* the ImmigrationError it throws.
Validate(h, entries, c) ==
  IF h = <<>> THEN "ok"
  ELSE LET Walk(l) ==
             LET n == Max2(Len(h), Len(l.files))
                 bad == {i \in 1..n : CheckPair(h, l.files, i) /= "ok"}
             IN IF l.err THEN "not_exist"
                ELSE IF bad = {} THEN "ok"
                ELSE CheckPair(h, l.files, CHOOSE i \in bad : \A j \in bad : i <= j)
       IN The({Walk(l) : l \in {List(entries,
                 ListOptions(c.check, IF IsDown(c) THEN c.to ELSE Undef,
                             LatestName(h), TRUE))}})

\* Mutant: the latest run migration is not excluded.
ExcludeLatest_Keeps(files, latest) == files

\* Mutant: the target of `down` is not excluded.
ExcludeTo_Keeps(files, to) == files

\* Exclude the latest run migration on `up`.
ExcludeLatest(files, latest) ==
  IF files /= <<>> /\ files[1] = latest THEN Tail(files) ELSE files

\* Exclude the last migration on `down`.
ExcludeTo(files, to) ==
  IF files /= <<>> /\ files[Len(files)] = to
  THEN SubSeq(files, 1, Len(files) - 1) ELSE files

\* The files shouldTry hands to the work function.
PlanFiles(h, entries, c) ==
  LET l == IF IsDown(c)
           THEN List(entries, ListOptions(Undef, c.to, LatestName(h), TRUE))
           ELSE List(entries, ListOptions(Undef, LatestName(h), c.to, FALSE))
  IN IF l.err THEN l
     ELSE [err |-> FALSE,
           files |-> IF IsDown(c) THEN ExcludeTo(l.files, c.to)
                     ELSE ExcludeLatest(l.files, LatestName(h))]

\* Mutant: migrate does not check its options.
UsageError_Never(c) == FALSE

\* The option checks at the head of migrate.
UsageError(c) == (c.all = Truthy(c.to)) \/ c.check < 1

(* ------------------------------- state -------------------------------- *)

VARIABLES
  dir,       \* the entries of the migration directory
  store,     \* the contents of .migrate.json
  lockfile,  \* whether .migrate.json.lock exists
  holder,    \* the processes whose lock() created the present lock file
  pc,        \* where each process is in migrate / acquire
  call,      \* the arguments of the process's migrate call
  hist,      \* shouldTry: the history read from the store
  plan,      \* the files shouldTry returned (the argument of the work function)
  idx,       \* how many files of the plan exec has completed
  elapsed,   \* acquire: the time since `start`, in units of retryWait
  events,    \* the events the call emitted, in order
  result,    \* how the migrate call ended
  store0,    \* the contents of the store when the (observed) call was made
  nlock,     \* the number of successful lock() calls of the call
  nunlock,   \* the number of unlock() calls of the call
  op         \* the last direct call of list or of a store method, and its outcome

vars == <<dir, store, lockfile, holder, pc, call, hist, plan, idx, elapsed,
          events, result, store0, nlock, nunlock, op>>

shared == <<dir, store, lockfile, holder>>

Checks == (0..MaxCheck) \cup {DefaultCheck}

\* The requests a caller can make.  In a call, `again` records how the request
\* follows the caller's previous one.  When that was the same request and it
\* resolved: "resolved" when it skipped a migration, else "validated" when its
\* `check` covered every record of its range, else "clean".  When that was the
\* same request and it ended in a safe failure, on a history without invalid
\* record: "safe".  When that was the dry run of this request: "previewed", and
\* `preview` holds the names of its plan events.  Otherwise "no".
Requests ==
  [direction : {"up", "down"}, to : {NoName} \cup Names, all : BOOLEAN,
   check : Checks, dryRun : BOOLEAN]

NoCall ==
  [direction |-> "up", to |-> NoName, all |-> FALSE, check |-> DefaultCheck,
   dryRun |-> FALSE, again |-> "no", preview |-> <<>>]

NoResult == [kind |-> "none", files |-> <<>>]
Resolved(files) == [kind |-> "ok", files |-> files]
Rejected(kind) == [kind |-> kind, files |-> <<>>]

Event(type, name, success) == [type |-> type, name |-> name, success |-> success]

\* The directory of the processes that contend for the lock.
ContendedFiles == 1..(MaxFile - 1)

\* No list or store method has been called directly.
NoOperation == [name |-> "none"]

\* No process has called migrate.
Idle ==
  /\ holder = {}
  /\ pc = [p \in AllProcs |-> "idle"]
  /\ call = [p \in AllProcs |-> NoCall]
  /\ hist = [p \in AllProcs |-> <<>>]
  /\ plan = [p \in AllProcs |-> <<>>]
  /\ idx = [p \in AllProcs |-> 0]
  /\ elapsed = [p \in AllProcs |-> 0]
  /\ events = [p \in AllProcs |-> <<>>]
  /\ result = [p \in AllProcs |-> NoResult]
  /\ store0 = [p \in AllProcs |-> EmptyStore]
  /\ nlock = [p \in AllProcs |-> 0]
  /\ nunlock = [p \in AllProcs |-> 0]

InitProcs ==
  /\ store = EmptyStore
  /\ lockfile = FALSE
  /\ op = NoOperation
  /\ Idle

Init ==
  /\ dir = ContendedFiles \cup {OtherEntry}
  /\ InitProcs

\* The call ends: the promise of migrate settles with r.
Settle(p, r) ==
  /\ pc' = [pc EXCEPT ![p] = "done"]
  /\ result' = [result EXCEPT ![p] = r]

Emit(p, e) == events' = [events EXCEPT ![p] = Append(@, e)]

Skipped(es) == \E i \in 1..Len(es) : es[i].type = "skip"

\* The records a call's history query ranges over: every record, or for
\* down --to X those from X upward.
InRange(contents, c) ==
  {n \in Recorded(contents) : ~(IsDown(c) /\ n < c.to)}

\* The names of the plan events of a call, in order.
RECURSIVE Planned(_)
Planned(es) ==
  IF es = <<>> THEN <<>>
  ELSE (IF Head(es).type = "plan" THEN <<Head(es).name>> ELSE <<>>)
         \o Planned(Tail(es))

\* How a request follows the caller's previous call.
Again(p, r) ==
  IF pc[p] /= "done" THEN "no"
  ELSE IF [f \in DOMAIN r |-> call[p][f]] = r
  THEN (IF result[p].kind = "ok"
        THEN (IF Skipped(events[p]) THEN "resolved"
              ELSE IF Cardinality(InRange(store0[p], r)) <= r.check
              THEN "validated"
              ELSE "clean")
        ELSE IF /\ result[p].kind = "safe_failed"
                /\ \A n \in Names : store0[p][n] /= "invalid"
        THEN "safe"
        ELSE "no")
  ELSE IF /\ result[p].kind = "ok"
          /\ call[p].dryRun /\ ~r.dryRun
          /\ [f \in DOMAIN r |-> call[p][f]] = [r EXCEPT !.dryRun = TRUE]
  THEN "previewed"
  ELSE "no"

(* --------------------------- Migrate.migrate -------------------------- *)

\* migrate(direction, options) is called; the option checks run.  `observed`
\* says whether the observation variables store0 and call.again are recorded.
Migrate(p, r, observed) ==
  /\ pc[p] \in {"idle", "done"}
  /\ call' = [call EXCEPT ![p] =
       [f \in DOMAIN r |-> r[f]] @@
       [again |-> IF observed THEN Again(p, r) ELSE "no",
        preview |-> IF observed /\ Again(p, r) = "previewed"
                    THEN Planned(events[p]) ELSE <<>>]]
  /\ hist' = [hist EXCEPT ![p] = <<>>]
  /\ plan' = [plan EXCEPT ![p] = <<>>]
  /\ idx' = [idx EXCEPT ![p] = 0]
  /\ elapsed' = [elapsed EXCEPT ![p] = 0]
  /\ events' = [events EXCEPT ![p] = <<>>]
  /\ store0' = [store0 EXCEPT ![p] = IF observed THEN store ELSE @]
  /\ nlock' = [nlock EXCEPT ![p] = 0]
  /\ nunlock' = [nunlock EXCEPT ![p] = 0]
  /\ IF UsageError(r)
     THEN Settle(p, Rejected("usage"))
     ELSE /\ pc' = [pc EXCEPT ![p] = "history"]
          /\ result' = [result EXCEPT ![p] = NoResult]
  /\ UNCHANGED <<op, shared>>

\* shouldTry: the history is read from the store.
ReadHistory(p) ==
  /\ pc[p] = "history"
  /\ hist' = [hist EXCEPT ![p] = History(store, HistoryQuery(call[p]))]
  /\ pc' = [pc EXCEPT ![p] = "validate"]
  /\ UNCHANGED <<op, shared, call, plan, idx, elapsed, events, result, store0,
                 nlock, nunlock>>

\* Mutant: the executions are checked only once lock() has been called.
CheckHistory_UnderLock(p) ==
  /\ pc[p] = "validate"
  /\ LET v == Validate(hist[p], dir, call[p])
     IN IF v = "ok"
        THEN /\ pc' = [pc EXCEPT ![p] = "plan"]
             /\ UNCHANGED result
        ELSE Settle(p, Rejected(v))
  /\ nlock' = [nlock EXCEPT ![p] = @ + 1]
  /\ nunlock' = [nunlock EXCEPT ![p] = @ + 1]
  /\ UNCHANGED <<op, shared, call, hist, plan, idx, elapsed, events, store0>>

\* shouldTry: the latest executions are checked against the directory.
CheckHistory(p) ==
  /\ pc[p] = "validate"
  /\ LET v == Validate(hist[p], dir, call[p])
     IN IF v = "ok"
        THEN /\ pc' = [pc EXCEPT ![p] = "plan"]
             /\ UNCHANGED result
        ELSE Settle(p, Rejected(v))
  /\ UNCHANGED <<op, shared, call, hist, plan, idx, elapsed, events, store0,
                 nlock, nunlock>>

\* Mutant: a dry run emits no plan event.
PlanEvents_None(files) == <<>>

\* Mutant: shouldTry never returns NO_ATTEMPT.
MakePlan_AlwaysLocks(p) ==
  /\ pc[p] = "plan"
  /\ LET l == PlanFiles(hist[p], dir, call[p])
     IN IF l.err
        THEN Settle(p, Rejected("not_exist")) /\ UNCHANGED <<plan, events>>
        ELSE /\ plan' = [plan EXCEPT ![p] = l.files]
             /\ pc' = [pc EXCEPT ![p] = "lock"]
             /\ UNCHANGED <<result, events>>
  /\ UNCHANGED <<op, shared, call, hist, idx, elapsed, store0, nlock, nunlock>>

RECURSIVE PlanEvents(_)
PlanEvents(files) ==
  IF files = <<>> THEN <<>>
  ELSE <<Event("plan", Head(files), TRUE)>> \o PlanEvents(Tail(files))

\* shouldTry: the files to run are listed; NO_ATTEMPT ends acquire at once.
MakePlan(p) ==
  /\ pc[p] = "plan"
  /\ LET l == PlanFiles(hist[p], dir, call[p])
     IN IF l.err
        THEN Settle(p, Rejected("not_exist")) /\ UNCHANGED <<plan, events>>
        ELSE IF l.files = <<>>
        THEN Settle(p, Resolved(<<>>)) /\ UNCHANGED <<plan, events>>
        ELSE IF call[p].dryRun
        THEN /\ Settle(p, Resolved(<<>>))
             /\ events' = [events EXCEPT ![p] = @ \o PlanEvents(l.files)]
             /\ UNCHANGED plan
        ELSE /\ plan' = [plan EXCEPT ![p] = l.files]
             /\ pc' = [pc EXCEPT ![p] = "lock"]
             /\ UNCHANGED <<result, events>>
  /\ UNCHANGED <<op, shared, call, hist, idx, elapsed, store0, nlock, nunlock>>

(* --------------------------- Migrate.acquire -------------------------- *)

\* Mutant: the work function is run without the lock file being created.
Lock_NotTaken(p) ==
  /\ pc[p] = "lock"
  /\ pc' = [pc EXCEPT ![p] = "exec"]
  /\ UNCHANGED <<op, shared, call, hist, plan, idx, elapsed, events, result,
                 store0, nlock, nunlock>>

\* Mutant: a rejected lock() is followed by the unlock() of the finally block.
Lock_Releases(p) ==
  /\ pc[p] = "lock"
  /\ IF LockAttempt(lockfile) = "acquired"
     THEN /\ lockfile' = TRUE
          /\ holder' = {p}
          /\ nlock' = [nlock EXCEPT ![p] = @ + 1]
          /\ pc' = [pc EXCEPT ![p] = "exec"]
          /\ UNCHANGED <<elapsed, events, result, nunlock>>
     ELSE /\ \E duration \in elapsed[p]..MaxWait :
               /\ elapsed' = [elapsed EXCEPT ![p] = duration]
               /\ IF duration < MaxWait
                  THEN /\ Emit(p, Event("wait", NoName, TRUE))
                       /\ pc' = [pc EXCEPT ![p] = "wait"]
                       /\ UNCHANGED result
                  ELSE /\ Settle(p, Rejected("LockRetryError"))
                       /\ UNCHANGED events
          /\ lockfile' = UnlockFile(lockfile)
          /\ holder' = {}
          /\ nunlock' = [nunlock EXCEPT ![p] = @ + 1]
          /\ UNCHANGED nlock
  /\ UNCHANGED <<op, dir, store, call, hist, plan, idx, store0>>

\* attempt: await this.lock() settles as the lock file decides.
Lock(p) ==
  /\ pc[p] = "lock"
  /\ IF LockAttempt(lockfile) = "acquired"
     THEN /\ lockfile' = TRUE
          /\ holder' = {p}
          /\ nlock' = [nlock EXCEPT ![p] = @ + 1]
          /\ pc' = [pc EXCEPT ![p] = "exec"]
          /\ UNCHANGED <<elapsed, events, result>>
     ELSE /\ \E duration \in elapsed[p]..MaxWait :
               /\ elapsed' = [elapsed EXCEPT ![p] = duration]
               /\ IF duration < MaxWait
                  THEN /\ Emit(p, Event("wait", NoName, TRUE))
                       /\ pc' = [pc EXCEPT ![p] = "wait"]
                       /\ UNCHANGED result
                  ELSE /\ Settle(p, Rejected("LockRetryError"))
                       /\ UNCHANGED events
          /\ UNCHANGED <<lockfile, holder, nlock>>
  /\ UNCHANGED <<op, dir, store, call, hist, plan, idx, store0, nunlock>>

\* Mutant: an error of lock() that is no LockRetryError is retried as well.
LockFails_Retries(p) ==
  /\ pc[p] = "lock"
  /\ result' = [result EXCEPT ![p] = Rejected("lock_error")]
  /\ pc' = [pc EXCEPT ![p] = "wait"]
  /\ UNCHANGED <<op, shared, call, hist, plan, idx, elapsed, events, store0,
                 nlock, nunlock>>

\* attempt: this.lock() rejects with an error that is no LockRetryError.
LockFails(p) ==
  /\ pc[p] = "lock"
  /\ Settle(p, Rejected("lock_error"))
  /\ UNCHANGED <<op, shared, call, hist, plan, idx, elapsed, events, store0,
                 nlock, nunlock>>

\* Mutant: the retry timer starts no new attempt.
Retry_Never(p) ==
  /\ pc[p] = "wait"
  /\ UNCHANGED vars

\* Mutant: the retry calls lock() again with the arguments of the first attempt.
Retry_KeepsPlan(p) ==
  /\ pc[p] = "wait"
  /\ elapsed' = [elapsed EXCEPT ![p] = Min2(@ + 1, MaxWait)]
  /\ pc' = [pc EXCEPT ![p] = "lock"]
  /\ UNCHANGED <<op, shared, call, hist, plan, idx, events, result, store0,
                 nlock, nunlock>>

\* The retry timer fires: attempt(count + 1) starts with shouldTry.
Retry(p) ==
  /\ pc[p] = "wait"
  /\ elapsed' = [elapsed EXCEPT ![p] = Min2(@ + 1, MaxWait)]
  /\ pc' = [pc EXCEPT ![p] = "history"]
  /\ UNCHANGED <<op, shared, call, hist, plan, idx, events, result, store0,
                 nlock, nunlock>>

\* finally: await this.unlock(); then the result of fn(arg) settles the call.
Unlock(p) ==
  /\ pc[p] = "unlock"
  /\ lockfile' = UnlockFile(lockfile)
  /\ holder' = IF lockfile' THEN holder ELSE {}
  /\ nunlock' = [nunlock EXCEPT ![p] = @ + 1]
  /\ pc' = [pc EXCEPT ![p] = "done"]
  /\ UNCHANGED <<op, dir, store, call, hist, plan, idx, elapsed, events, result,
                 store0, nlock>>

(* ------------------------ the work function, exec --------------------- *)

Current(p) == plan[p][idx[p] + 1]

\* The work function throws: the error is kept until unlock() has run.
Throw(p, kind) ==
  /\ result' = [result EXCEPT ![p] = Rejected(kind)]
  /\ pc' = [pc EXCEPT ![p] = "unlock"]

\* The state exec records when the action succeeded.
Record(contents, direction, name) ==
  IF direction = "up" THEN StoreUpdate(contents, name, TRUE)
  ELSE StoreRemove(contents, name)

\* Mutant: a migration without function for the direction is recorded as run.
Skip_Records(p) ==
  /\ pc[p] = "exec" /\ idx[p] < Len(plan[p])
  /\ Emit(p, Event("skip", Current(p), TRUE))
  /\ store' = Record(store, call[p].direction, Current(p))
  /\ idx' = [idx EXCEPT ![p] = @ + 1]
  /\ UNCHANGED <<op, dir, lockfile, holder, pc, call, hist, plan, elapsed,
                 result, store0, nlock, nunlock>>

\* exec: the module has no function for the direction.
Skip(p) ==
  /\ pc[p] = "exec" /\ idx[p] < Len(plan[p])
  /\ Emit(p, Event("skip", Current(p), TRUE))
  /\ idx' = [idx EXCEPT ![p] = @ + 1]
  /\ UNCHANGED <<op, shared, pc, call, hist, plan, elapsed, result, store0,
                 nlock, nunlock>>

\* Mutant: the error of a value that is not a function is retried by acquire
\* like a LockRetryError.
NotFunction_Retries(p) ==
  /\ pc[p] = "exec" /\ idx[p] < Len(plan[p])
  /\ result' = [result EXCEPT ![p] = Rejected("not_function")]
  /\ pc' = [pc EXCEPT ![p] = "wait"]
  /\ UNCHANGED <<op, shared, call, hist, plan, idx, elapsed, events, store0,
                 nlock, nunlock>>

\* exec: what the module exports for the direction is not a function.
NotFunction(p) ==
  /\ pc[p] = "exec" /\ idx[p] < Len(plan[p])
  /\ Throw(p, "not_function")
  /\ UNCHANGED <<op, shared, call, hist, plan, idx, elapsed, events, store0,
                 nlock, nunlock>>

\* Mutant: exec does not await the action: it goes on to the next migration as
\* soon as the action is invoked.
Start_NoAwait(p) ==
  /\ pc[p] = "exec" /\ idx[p] < Len(plan[p])
  /\ Emit(p, Event("start", Current(p), TRUE))
  /\ idx' = [idx EXCEPT ![p] = @ + 1]
  /\ UNCHANGED <<op, shared, pc, call, hist, plan, elapsed, result, store0,
                 nlock, nunlock>>

\* exec: the action is invoked.
Start(p) ==
  /\ pc[p] = "exec" /\ idx[p] < Len(plan[p])
  /\ Emit(p, Event("start", Current(p), TRUE))
  /\ pc' = [pc EXCEPT ![p] = "running"]
  /\ UNCHANGED <<op, shared, call, hist, plan, idx, elapsed, result, store0,
                 nlock, nunlock>>

\* exec: the action resolves; the record is updated (up) or removed (down).
Succeed(p) ==
  /\ pc[p] = "running"
  /\ Emit(p, Event("end", Current(p), TRUE))
  /\ store' = Record(store, call[p].direction, Current(p))
  /\ idx' = [idx EXCEPT ![p] = @ + 1]
  /\ pc' = [pc EXCEPT ![p] = "exec"]
  /\ UNCHANGED <<op, dir, lockfile, holder, call, hist, plan, elapsed, result,
                 store0, nlock, nunlock>>

\* exec: the action rejects; the record is marked invalid.
Fail(p) ==
  /\ pc[p] = "running"
  /\ Emit(p, Event("end", Current(p), FALSE))
  /\ store' = StoreUpdate(store, Current(p), FALSE)
  /\ Throw(p, "failed")
  /\ UNCHANGED <<op, dir, lockfile, holder, call, hist, plan, idx, elapsed,
                 store0, nlock, nunlock>>

\* Mutant: a SafeMigrationError marks the record invalid like any other error.
SafeFail_Marks(p) ==
  /\ pc[p] = "running"
  /\ Emit(p, Event("end", Current(p), FALSE))
  /\ store' = StoreUpdate(store, Current(p), FALSE)
  /\ Throw(p, "safe_failed")
  /\ UNCHANGED <<op, dir, lockfile, holder, call, hist, plan, idx, elapsed,
                 store0, nlock, nunlock>>

\* exec: the action rejects with a SafeMigrationError.
SafeFail(p) ==
  /\ pc[p] = "running"
  /\ Emit(p, Event("end", Current(p), FALSE))
  /\ Throw(p, "safe_failed")
  /\ UNCHANGED <<op, shared, call, hist, plan, idx, elapsed, store0, nlock,
                 nunlock>>

\* The work function returns `files` once every exec has resolved.
Finish(p) ==
  /\ pc[p] = "exec" /\ idx[p] = Len(plan[p])
  /\ result' = [result EXCEPT ![p] = Resolved(plan[p])]
  /\ pc' = [pc EXCEPT ![p] = "unlock"]
  /\ UNCHANGED <<op, shared, call, hist, plan, idx, elapsed, events, store0,
                 nlock, nunlock>>

\* The requests of the processes that contend for the lock: every migration up
\* or down, with the default `check`.
ContendingRequests ==
  {r \in Requests : r.all /\ r.to = NoName /\ r.check = DefaultCheck /\ ~r.dryRun}

\* One step of a migrate call that has been made.
Run(p) ==
  \/ ReadHistory(p)
  \/ CheckHistory(p)
  \/ MakePlan(p)
  \/ Lock(p)
  \/ LockFails(p)
  \/ Retry(p)
  \/ Skip(p)
  \/ NotFunction(p)
  \/ Start(p)
  \/ Succeed(p)
  \/ Fail(p)
  \/ SafeFail(p)
  \/ Finish(p)
  \/ Unlock(p)

\* Processes calling migrate against one store and one directory.
Next ==
  \E p \in AllProcs :
    \/ \E r \in ContendingRequests : Migrate(p, r, FALSE)
    \/ Run(p)

Spec == Init /\ [][Next]_vars

\* The same processes on a directory with a single migration file.
InitLive ==
  /\ dir = {CHOOSE n \in Names : \A m \in Names : n <= m, OtherEntry}
  /\ InitProcs

\* The event loop of a process runs every continuation and timer that is
\* ready: a migrate call that has been made keeps taking steps.
SpecLive ==
  InitLive /\ [][Next]_vars /\ \A p \in AllProcs : WF_vars(Run(p))

(* ------------- the operator and the file system, between calls -------- *)

\* A migration file is deleted from the directory.
DeleteFile(n) ==
  /\ n \in dir
  /\ dir' = dir \ {n}
  /\ UNCHANGED <<store, lockfile, holder>>

\* A migration file is added to the directory.
AddFile(n) ==
  /\ n \notin dir
  /\ dir' = dir \cup {n}
  /\ UNCHANGED <<store, lockfile, holder>>

\* Migrate.update(name, valid): `force` is update(name, true).
Update(n, valid) ==
  /\ store' = StoreUpdate(store, n, valid)
  /\ UNCHANGED <<dir, lockfile, holder>>

\* Migrate.remove(name)
Remove(n) ==
  /\ store' = StoreRemove(store, n)
  /\ UNCHANGED <<dir, lockfile, holder>>

\* Migrate.lock(), called directly.
LockStore ==
  /\ LockAttempt(lockfile) = "acquired"
  /\ lockfile' = TRUE
  /\ holder' = {}
  /\ UNCHANGED <<dir, store>>

\* Migrate.unlock(), called directly.
UnlockStore ==
  /\ lockfile' = UnlockFile(lockfile)
  /\ holder' = IF lockfile' THEN holder ELSE {}
  /\ UNCHANGED <<dir, store>>

\* No migrate call is in progress.
Quiet == \A p \in AllProcs : pc[p] \in {"idle", "done"}

\* What is known of the finished calls is dropped.
Forget ==
  /\ pc' = [p \in AllProcs |-> "idle"]
  /\ call' = [p \in AllProcs |-> NoCall]
  /\ hist' = [p \in AllProcs |-> <<>>]
  /\ plan' = [p \in AllProcs |-> <<>>]
  /\ idx' = [p \in AllProcs |-> 0]
  /\ elapsed' = [p \in AllProcs |-> 0]
  /\ events' = [p \in AllProcs |-> <<>>]
  /\ result' = [p \in AllProcs |-> NoResult]
  /\ store0' = [p \in AllProcs |-> EmptyStore]
  /\ nlock' = [p \in AllProcs |-> 0]
  /\ nunlock' = [p \in AllProcs |-> 0]

Between(A) == Quiet /\ A /\ Forget /\ UNCHANGED op

\* The single caller of the sequential specification.
Caller == CHOOSE p \in AllProcs : \A q \in AllProcs : p <= q

\* One process calls migrate again and again; between its calls the operator
\* forces or removes records and locks or unlocks the store, and migration
\* files come and go.
NextSeq ==
  \/ \E r \in Requests : Migrate(Caller, r, TRUE)
  \/ Run(Caller)
  \/ \E n \in Names : Between(DeleteFile(n))
  \/ \E n \in Names : Between(AddFile(n))
  \/ \E n \in Names, valid \in BOOLEAN : Between(Update(n, valid))
  \/ \E n \in Names : Between(Remove(n))
  \/ Between(LockStore)
  \/ Between(UnlockStore)

InitSeq ==
  /\ dir = Entries
  /\ InitProcs

SpecSeq == InitSeq /\ [][NextSeq]_vars

(* ------------------ list and history, called directly ----------------- *)

\* What the calls of migrate keep of their progress.
procs == <<pc, call, hist, plan, idx, elapsed, events, result, store0, nlock,
           nunlock>>

\* The ListOptions of a direct call: `count` absent, 0 or a number; `gte` and
\* `lte` absent, "" or a name.
Counts == {Undef} \cup (0..MaxCount)
Boundaries == {Undef, NoName} \cup Names
AllListOptions ==
  {ListOptions(c, g, l, r) :
     c \in Counts, g \in Boundaries, l \in Boundaries, r \in BOOLEAN}

\* A directory, a store and the options of the call that is about to be made.
InitList ==
  /\ dir \in SUBSET Entries
  /\ store \in [Names -> {"absent", "valid", "invalid"}]
  /\ lockfile = FALSE
  /\ op \in {[name |-> "none", options |-> o] : o \in AllListOptions}
  /\ Idle

\* Migrate.list(options), iterated to its end.
CallList ==
  /\ op' = The({[name |-> "list", options |-> op.options, err |-> l.err,
                 out |-> l.files] : l \in {List(dir, op.options)}})
  /\ UNCHANGED <<shared, procs>>

\* Migrate.history(options), iterated to its end: the store's history never
\* throws.
CallHistory ==
  /\ op' = [name |-> "history", options |-> op.options, err |-> FALSE,
            out |-> History(store, op.options)]
  /\ UNCHANGED <<shared, procs>>

NextList == CallList \/ CallHistory

SpecList == InitList /\ [][NextList]_vars

(* -------------------- the store, called directly ---------------------- *)

\* Mutant: isLocked() answers false whatever the lock file.
IsLocked_Never(exists) == FALSE

\* FS_STORAGE isLocked(): fs.stat(lockfile) succeeds iff the file exists;
\* ENOENT becomes false.
IsLocked(exists) == exists

\* contents.hasOwnProperty(name)
Exists(contents, name) == contents[name] /= "absent"

\* Mutant: show() answers undefined for every name.
Show_Undefined(contents, name) == [found |-> FALSE]

\* FS_STORAGE show(name): undefined, or the execution read from the file.
Show(contents, name) ==
  IF ~Exists(contents, name) THEN [found |-> FALSE]
  ELSE [found |-> TRUE, execution |-> ToExecution(name, contents[name])]

\* Mutant: remove() answers true whether or not there was an entry.
Removed_Always(contents, name) == TRUE

\* FS_STORAGE remove(name): what it returns, `exists`.
Removed(contents, name) == Exists(contents, name)

\* Migrate.lock(): resolves, or rejects with the LockRetryError of the store.
CallLock ==
  /\ IF LockAttempt(lockfile) = "acquired"
     THEN LockStore /\ op' = [name |-> "lock", err |-> "none"]
     ELSE UNCHANGED shared /\ op' = [name |-> "lock", err |-> "LockRetryError"]
  /\ UNCHANGED procs

\* Migrate.lock() rejects with an error of fs.open that is not EEXIST.
CallLockFails ==
  /\ op' = [name |-> "lock", err |-> "error"]
  /\ UNCHANGED <<shared, procs>>

\* Migrate.unlock()
CallUnlock ==
  /\ UnlockStore
  /\ op' = [name |-> "unlock", err |-> "none"]
  /\ UNCHANGED procs

\* Migrate.isLocked()
CallIsLocked ==
  /\ op' = [name |-> "isLocked", err |-> "none", ret |-> IsLocked(lockfile)]
  /\ UNCHANGED <<shared, procs>>

\* Migrate.update(name, valid, date)
CallUpdate(n, valid) ==
  /\ Update(n, valid)
  /\ op' = [name |-> "update", arg |-> n, valid |-> valid, err |-> "none"]
  /\ UNCHANGED procs

\* Migrate.show(name)
CallShow(n) ==
  /\ op' = [name |-> "show", arg |-> n, err |-> "none", ret |-> Show(store, n)]
  /\ UNCHANGED <<shared, procs>>

\* Migrate.remove(name)
CallRemove(n) ==
  /\ Remove(n)
  /\ op' = [name |-> "remove", arg |-> n, err |-> "none",
            ret |-> Removed(store, n)]
  /\ UNCHANGED procs

\* A caller uses the store through the methods of Migrate, one call after the
\* other.
NextStore ==
  \/ CallLock
  \/ CallLockFails
  \/ CallUnlock
  \/ CallIsLocked
  \/ \E n \in Names, valid \in BOOLEAN : CallUpdate(n, valid)
  \/ \E n \in Names : CallShow(n)
  \/ \E n \in Names : CallRemove(n)

SpecStore == InitSeq /\ [][NextStore]_vars

(* ------------------------ force, between calls ------------------------ *)

\* Mutant: force runs the migration up (here: it emits its start event).
Force_Runs(n) ==
  /\ Quiet
  /\ store[n] = "invalid"
  /\ Update(n, TRUE)
  /\ op' = [name |-> "force", arg |-> n]
  /\ events' = [events EXCEPT ![Caller] = Append(@, Event("start", n, TRUE))]
  /\ UNCHANGED <<pc, call, hist, plan, idx, elapsed, result, store0, nlock,
                 nunlock>>

\* bin.ts force: Migrate.update(name, true), on a record that is invalid.
Force(n) ==
  /\ Quiet
  /\ store[n] = "invalid"
  /\ Update(n, TRUE)
  /\ op' = [name |-> "force", arg |-> n]
  /\ UNCHANGED procs

\* One process calls migrate again and again on a directory that does not
\* change; between its calls the operator forces the records that are invalid.
NextForce ==
  \/ \E r \in Requests : Migrate(Caller, r, TRUE)
  \/ ReadHistory(Caller)
  \/ CheckHistory(Caller)
  \/ MakePlan(Caller)
  \/ Lock(Caller)
  \/ LockFails(Caller)
  \/ Skip(Caller)
  \/ NotFunction(Caller)
  \/ Start(Caller)
  \/ Succeed(Caller)
  \/ Fail(Caller)
  \/ SafeFail(Caller)
  \/ Finish(Caller)
  \/ Unlock(Caller)
  \/ \E n \in Names : Force(n)

SpecForce == InitSeq /\ [][NextForce]_vars

(* ------------------ two processes, one call each ---------------------- *)

\* migrate("up", {all: true})
UpAll ==
  [direction |-> "up", to |-> NoName, all |-> TRUE, check |-> DefaultCheck,
   dryRun |-> FALSE]

\* Each process calls migrate("up", {all: true}) once, on the empty history.
NextOnce ==
  \E p \in AllProcs :
    \/ pc[p] = "idle" /\ Migrate(p, UpAll, FALSE)
    \/ Run(p)

SpecOnce == Init /\ [][NextOnce]_vars

(* ------------- one process, every migration with both actions -------- *)

\* One process calls migrate again and again on a directory that does not
\* change and in which every migration exports an up and a down function; no
\* one else touches the store or the lock.
NextAlone ==
  \/ \E r \in Requests : Migrate(Caller, r, TRUE)
  \/ ReadHistory(Caller)
  \/ CheckHistory(Caller)
  \/ MakePlan(Caller)
  \/ Lock(Caller)
  \/ LockFails(Caller)
  \/ Start(Caller)
  \/ Succeed(Caller)
  \/ Fail(Caller)
  \/ SafeFail(Caller)
  \/ Finish(Caller)
  \/ Unlock(Caller)

SpecAlone == InitSeq /\ [][NextAlone]_vars

(* ------------- FS_STORAGE: the chain of updateStore steps ------------- *)

\* The function update() hands to updateStore.
UpdateCall(n, valid) == [fn |-> "update", name |-> n, valid |-> valid]

\* The function remove() hands to updateStore.
RemoveCall(n) == [fn |-> "remove", name |-> n, valid |-> FALSE]

\* fn(contents), for the function of a call.
Apply(c, contents) ==
  IF c.fn = "update" THEN StoreUpdate(contents, c.name, c.valid)
                     ELSE StoreRemove(contents, c.name)

\* read(): the parsed file, or {} when readFile or JSON.parse throws.
Read(contents, ok) == IF ok THEN contents ELSE EmptyStore

\* let pending = Promise.resolve(): no call has been chained.  `calls` are the
\* callbacks chained on `pending`, in call order; `outcome` tells how the
\* promises of the first of them have settled.
NoPending == [name |-> "updateStore", calls |-> <<>>, outcome |-> <<>>]

InitChain ==
  /\ dir = Entries
  /\ store = EmptyStore
  /\ lockfile = FALSE
  /\ op = NoPending
  /\ Idle

\* The callback that settles next, when there is one.
NextStep == Len(op.outcome) + 1

Unsettled == NextStep <= Len(op.calls)

\* The promise the next callback is chained on is rejected.
PendingRejected ==
  /\ op.outcome /= <<>>
  /\ op.outcome[Len(op.outcome)] \in {"rejected", "notRun"}

Settles(how) ==
  /\ op' = [op EXCEPT !.outcome = Append(@, how)]
  /\ UNCHANGED <<dir, lockfile, holder, procs>>

\* updateStore(fn): pending = pending.then(...), the synchronous part of
\* update(name, valid, date).
ChainUpdate(n, valid) ==
  /\ Len(op.calls) < MaxCalls
  /\ op' = [op EXCEPT !.calls = Append(@, UpdateCall(n, valid))]
  /\ UNCHANGED <<shared, procs>>

\* updateStore(fn): pending = pending.then(...), the synchronous part of
\* remove(name).
ChainRemove(n) ==
  /\ Len(op.calls) < MaxCalls
  /\ op' = [op EXCEPT !.calls = Append(@, RemoveCall(n))]
  /\ UNCHANGED <<shared, procs>>

\* The callback runs: read(), fn(contents), and writeFile succeeds.
StepWrites ==
  /\ Unsettled
  /\ ~PendingRejected
  /\ store' = Apply(op.calls[NextStep], Read(store, TRUE))
  /\ Settles("written")

\* The callback runs and readFile or JSON.parse throws: read() answers {},
\* and fn({}) is written.
StepReadFails ==
  /\ Unsettled
  /\ ~PendingRejected
  /\ store' = Apply(op.calls[NextStep], Read(store, FALSE))
  /\ Settles("readFailed")

\* The callback runs and fs.writeFile rejects: the promise of the step, which
\* is `pending` for the steps chained after it, is rejected.
StepWriteFails ==
  /\ Unsettled
  /\ ~PendingRejected
  /\ UNCHANGED store
  /\ Settles("rejected")

\* then() on a rejected promise: the callback is not called, and the promise
\* of the step is rejected with the same error.
StepNotRun ==
  /\ Unsettled
  /\ PendingRejected
  /\ UNCHANGED store
  /\ Settles("notRun")

\* update and remove are called on one store instance, without waiting for
\* the calls made before.
NextChain ==
  \/ \E n \in Names, valid \in BOOLEAN : ChainUpdate(n, valid)
  \/ \E n \in Names : ChainRemove(n)
  \/ StepWrites
  \/ StepReadFails
  \/ StepWriteFails
  \/ StepNotRun

SpecChain == InitChain /\ [][NextChain]_vars

(* ============================== claims ================================ *)

\* The process is inside the locked section of acquire: between the lock()
\* that succeeded and the unlock() of the finally block.
InLocked(p) == pc[p] \in {"exec", "running", "unlock"}

\* The names whose action the call invoked, in order.
RECURSIVE Invoked(_)
Invoked(es) ==
  IF es = <<>> THEN <<>>
  ELSE (IF Head(es).type = "start" THEN <<Head(es).name>> ELSE <<>>)
         \o Invoked(Tail(es))

\* C1: at most one process at a time is inside the locked section, and it is
\* the one whose lock() created the lock file; a process whose lock() attempt
\* completes while another process is inside the locked section does not enter
\* it: the attempt ends in LockRetryError (it waits, or rejects with it) or in
\* a fatal error of the file system.
C1_OneHolder ==
  \A p \in AllProcs :
    InLocked(p) =>
      /\ lockfile /\ holder = {p}
      /\ \A q \in AllProcs \ {p} : ~InLocked(q)

C1_LoserRetries ==
  \A p \in AllProcs :
    (/\ pc[p] = "lock" /\ pc'[p] /= "lock"
     /\ \E q \in AllProcs \ {p} : InLocked(q))
    => \/ pc'[p] = "wait"
       \/ pc'[p] = "done" /\ result'[p].kind \in {"LockRetryError", "lock_error"}

C1_MutualExclusion == []C1_OneHolder /\ [][C1_LoserRetries]_vars

\* Two processes attempted lock() together: one is running its batch, the
\* other got LockRetryError and waits.
C1_Witness ==
  \E p, q \in AllProcs :
    /\ p /= q
    /\ pc[p] = "running"
    /\ pc[q] = "wait"
    /\ plan[p] = plan[q]

\* C2: a call locks at most once, unlocks only what it locked, and when it has
\* settled every lock() that succeeded has been followed by exactly one
\* unlock(), so that the lock file it created is gone, whichever way the work
\* function ended.
C2_GuaranteedRelease ==
  \A p \in AllProcs :
    /\ nlock[p] <= 1
    /\ nunlock[p] <= nlock[p]
    /\ InLocked(p) => nlock[p] = 1 /\ nunlock[p] = 0
    /\ pc[p] = "done" => nunlock[p] = nlock[p] /\ p \notin holder

\* Two settled calls that left the work function by an exception, one by a
\* safe failure and one by a value that is not callable, both released.
C2_Witness ==
  \E p, q \in AllProcs :
    /\ pc[p] = "done" /\ result[p].kind = "safe_failed"
    /\ pc[q] = "done" /\ result[q].kind = "not_function"
    /\ nlock[p] = 1 /\ nunlock[p] = 1
    /\ nlock[q] = 1 /\ nunlock[q] = 1
    /\ ~lockfile

(* ---------------- one caller: what a migrate call does ----------------- *)

\* The call of the caller, its target X and the history it started from.
Req == call[Caller]
X == Req.to
Start0 == store0[Caller]
Recorded0 == Recorded(Start0)
Settled == pc[Caller] = "done"
Ran == Invoked(events[Caller])

\* The migration files of the directory, in ascending order.
Files == Sort({e \in dir : HasExtension(e)})

\* The store that records exactly the names of S, all valid.
ValidStore(S) == [n \in Names |-> IF n \in S THEN "valid" ELSE "absent"]

\* The call was a well-formed request to really migrate.
RealCall(c) == ~UsageError(c) /\ ~c.dryRun

\* The call could not take the lock.
LockFailed == result[Caller].kind \in {"LockRetryError", "lock_error"}

\* Every migration the call came to had a function for the direction, and it
\* succeeded.
ActionsSucceeded ==
  /\ ~Skipped(events[Caller])
  /\ result[Caller].kind \notin {"failed", "safe_failed", "not_function"}

Ascending(s) == \A i \in 1..(Len(s) - 1) : s[i] < s[i + 1]
Descending(s) == \A i \in 1..(Len(s) - 1) : s[i] > s[i + 1]

\* The greatest recorded name when the call was made ("" when there is none).
Latest0 ==
  IF Recorded0 = {} THEN NoName
  ELSE CHOOSE n \in Recorded0 : \A m \in Recorded0 : m <= n

\* The call has invoked no action, taken no lock and changed no record.
Untouched == Ran = <<>> /\ nlock[Caller] = 0 /\ store = Start0

\* The ImmigrationErrors of the consistency validation (and of its listing).
ConsistencyErrors == {"not_run", "not_found", "invalid", "not_exist"}

\* The history the validation of this call looks at: the `check` newest records
\* of its range, newest first.
Window0 == History(Start0, HistoryQuery(Req))
WindowNames == {Window0[i].name : i \in 1..Len(Window0)}

\* `check` covers every record of the range of the call.
Covered == Cardinality(InRange(Start0, Req)) <= Req.check

\* C3: migrate("up", {all: true}) on an empty history, every up action
\* succeeding (and the lock being free), settles by returning the ascending list
\* of all migration files, having invoked the up action of each exactly once in
\* that order, and leaves in history exactly those files, all valid.
C3_UpAll ==
  (/\ Settled
   /\ Req.direction = "up" /\ Req.all /\ RealCall(Req)
   /\ Start0 = EmptyStore
   /\ ActionsSucceeded /\ ~LockFailed)
  => /\ result[Caller] = Resolved(Files)
     /\ Ran = Files
     /\ store = ValidStore(Range(Files))

\* C3, where the directory holds at least one migration file: there the
\* statement holds.
C3_UpAll_SomeFile == Files /= <<>> => C3_UpAll

\* C4: after a full successful up (history = every migration file, valid),
\* migrate("down", {all: true}) whose down actions succeed invokes the down
\* action of every recorded migration in descending order, returns that
\* descending list and leaves history empty.
C4_DownAll ==
  (/\ Settled
   /\ Req.direction = "down" /\ Req.all /\ RealCall(Req)
   /\ Files /= <<>> /\ Start0 = ValidStore(Range(Files))
   /\ ActionsSucceeded /\ ~LockFailed)
  => /\ result[Caller] = Resolved(Reverse(Files))
     /\ Ran = Reverse(Files)
     /\ store = EmptyStore

C4_Witness ==
  /\ Settled
  /\ Req.direction = "down" /\ Req.all /\ RealCall(Req)
  /\ Start0 = ValidStore(Names) /\ Range(Files) = Names
  /\ Ran = Reverse(Files)
  /\ result[Caller].kind = "ok"
  /\ store = EmptyStore

\* The call is a real migrate("down", {to: X}) with X an existing, recorded
\* migration.
DownToRecorded ==
  /\ Req.direction = "down" /\ ~Req.all /\ RealCall(Req)
  /\ X \in dir /\ X \in Recorded0

\* What C5 says of such a call: only recorded migrations greater than X are
\* run, newest first; no record up to X changes; and when the call resolves,
\* every action having succeeded, it ran every recorded migration greater than
\* X and removed exactly their records.
DownToRunsAboveX ==
  /\ \A n \in Range(Ran) : n > X /\ n \in Recorded0
  /\ Descending(Ran)
  /\ \A n \in Names : n <= X => store[n] = Start0[n]
  /\ (Settled /\ result[Caller].kind = "ok" /\ ActionsSucceeded)
     => /\ Ran = Reverse(Sort({n \in Recorded0 : n > X}))
        /\ store = [n \in Names |-> IF n > X THEN "absent" ELSE Start0[n]]

\* C5 as stated: for every `check`.
C5_DownTo_Original == DownToRecorded => DownToRunsAboveX

\* C5 (amended): migrate("down", {to: X}) with X an existing, recorded
\* migration and with at most `check` records from X upward runs the down action
\* only for recorded migrations strictly greater than X, newest first, removes
\* exactly their records, and never runs or removes X itself.
C5_DownTo == (DownToRecorded /\ Covered) => DownToRunsAboveX

C5_Witness ==
  /\ Settled /\ DownToRecorded /\ Covered
  /\ Start0 = ValidStore(Names)
  /\ \E n \in Names : n > X + 1
  /\ Ran = Reverse(Sort({n \in Names : n > X}))
  /\ store = ValidStore({n \in Names : n <= X})

\* The second call of C6 did nothing.
NoOp ==
  /\ result[Caller] = Resolved(<<>>)
  /\ events[Caller] = <<>>
  /\ nlock[Caller] = 0
  /\ store = Start0

UpWindow == Sort({f \in Range(Files) : f > Latest0 /\ f <= X})

\* C7: migrate("up", {to: X}) only ever runs files greater than the latest
\* recorded name and not greater than X, in ascending order (so nothing when X
\* is not newer than the latest record); when it resolves, every action having
\* succeeded, it has run and returned exactly those files.
C7_UpTo ==
  (Req.direction = "up" /\ ~Req.all /\ RealCall(Req))
  => /\ Range(Ran) \subseteq Range(UpWindow)
     /\ Ascending(Ran)
     /\ (Settled /\ result[Caller].kind = "ok" /\ ActionsSucceeded)
        => Ran = UpWindow /\ result[Caller].files = UpWindow

\* An up to X between the latest record and the newest file.
C7_Witness ==
  /\ Settled
  /\ Req.direction = "up" /\ ~Req.all /\ RealCall(Req)
  /\ Latest0 /= NoName /\ Latest0 < X
  /\ \E f \in Range(Files) : f > X
  /\ result[Caller].kind = "ok"
  /\ Ran = <<X>>

\* A migrate call (up or down, dry run or not) is being made or has settled.
Called == pc[Caller] /= "idle" /\ ~UsageError(Req)

\* What C8 says of the call: it fails with an ImmigrationError, no action
\* invoked and no record changed.
RejectedUntouched ==
  /\ Untouched
  /\ Settled => result[Caller].kind \in ConsistencyErrors

\* C8 as stated: whichever record the deleted file belongs to.
C8_DeletedFile_Original ==
  (Called /\ \E n \in Names : Start0[n] = "valid" /\ n \notin dir)
  => RejectedUntouched

\* C8 (amended): deleting a migration file whose valid record is among the
\* `check` newest records of the range of the next migrate (every record; for
\* down --to X the records from X upward) makes that call fail with an
\* ImmigrationError before any action is invoked and any record is changed.
C8_DeletedFile ==
  (Called /\ \E n \in WindowNames : Start0[n] = "valid" /\ n \notin dir)
  => RejectedUntouched

\* The file of a valid record that is not the latest one is gone: "cannot be
\* found".
C8_Witness ==
  /\ Settled /\ ~UsageError(Req)
  /\ \E n \in WindowNames : Start0[n] = "valid" /\ n \notin dir /\ n < Latest0
  /\ result[Caller].kind = "not_found"

\* The files the validation of the call lists: the `check` newest files of its
\* range that are not newer than the latest record.
ListedFiles ==
  LET from == IF IsDown(Req) /\ Truthy(X) THEN X ELSE NoName
      all == Sort({f \in Range(Files) : from <= f /\ f <= LatestName(Window0)})
  IN Range(Slice(Reverse(all), 0, Req.check))

\* The listed files that have no record: the gaps the validation can see.
Gaps == {f \in ListedFiles : f \notin Recorded0}

\* The target of a down --to X, if any, exists.
TargetExists == (IsDown(Req) /\ Truthy(X)) => X \in dir

\* C9 as stated: a file without a record that is older than the latest record
\* makes migrate fail with "has not been run yet", nothing run.
C9_Gap_Original ==
  (Called /\ \E f \in Range(Files) : f \notin Recorded0 /\ f < Latest0)
  => /\ Ran = <<>>
     /\ Settled => result[Caller].kind = "not_run"

\* C9 (amended): if a migration file without a record is among the `check`
\* newest files of the range of the call that are not newer than its latest
\* record, migrate fails with an ImmigrationError and runs nothing; the error is
\* "has not been run yet" when every record newer than the newest such file is
\* valid and has its file (and the target of a down --to exists).
C9_Gap ==
  (Called /\ Gaps /= {})
  => /\ RejectedUntouched
     /\ (/\ Settled
         /\ TargetExists
         /\ LET f == CHOOSE g \in Gaps : \A h \in Gaps : h <= g
            IN \A n \in Recorded0 : n > f => Start0[n] = "valid" /\ n \in dir)
        => result[Caller].kind = "not_run"

C9_Witness ==
  /\ Settled /\ ~UsageError(Req)
  /\ Gaps /= {}
  /\ Cardinality(Recorded0) > 1
  /\ result[Caller].kind = "not_run"

\* C10 as stated: any invalid record makes every migrate fail with "is in an
\* invalid state", nothing run.
C10_Invalid_Original ==
  (Called /\ \E n \in Names : Start0[n] = "invalid")
  => /\ Ran = <<>>
     /\ Settled => result[Caller].kind = "invalid"

\* C10 (amended): while a record among the `check` newest records of the range
\* of the call has valid=false, migrate fails with an ImmigrationError and
\* invokes no action; the error is "is in an invalid state" when that record is
\* the latest of the range and its file (and the target of a down --to) exists.
C10_Invalid ==
  (Called /\ \E n \in WindowNames : Start0[n] = "invalid")
  => /\ RejectedUntouched
     /\ (/\ Settled
         /\ ~Window0[1].valid
         /\ Window0[1].name \in dir
         /\ TargetExists)
        => result[Caller].kind = "invalid"

\* The latest record was left invalid by a failed migration; the next migrate
\* is rejected.
C10_Witness ==
  /\ Settled /\ ~UsageError(Req)
  /\ Window0 /= <<>> /\ ~Window0[1].valid
  /\ Cardinality(Recorded0) > 1
  /\ result[Caller].kind = "invalid"

(* ------------------------- failures in a batch ------------------------- *)

\* The migration whose action failed: exec threw at this file of the plan.
Failing == Current(Caller)

\* The migrations of the batch that ran before the failing one have the record
\* exec wrote for them, every other record but the failing one's is as the
\* call found it, and no migration after the failing one was started.
BatchHalted ==
  /\ Ran /= <<>> /\ Ran[Len(Ran)] = Failing
  /\ \A i \in 1..(Len(Ran) - 1) :
       store[Ran[i]] = (IF Req.direction = "up" THEN "valid" ELSE "absent")
  /\ \A n \in Names \ Range(Ran) : store[n] = Start0[n]
  /\ \A i \in (idx[Caller] + 2)..Len(plan[Caller]) :
       plan[Caller][i] \notin Range(Ran)
  /\ pc[Caller] \in {"unlock", "done"}

\* C11: when a migration action fails with an ordinary error, the record of
\* that migration is {valid: false}, the call ends with an ImmigrationError
\* (after unlock), no later migration of the batch is run, and the records of
\* the migrations completed earlier in the batch stay as written: valid on up,
\* removed on down.
C11_OrdinaryFailure ==
  result[Caller].kind = "failed"
  => /\ store[Failing] = "invalid"
     /\ BatchHalted

\* The first migration of three succeeded, the second failed, the third was
\* never started.
C11_Witness ==
  /\ Settled
  /\ result[Caller].kind = "failed"
  /\ Len(plan[Caller]) = 3 /\ Len(Ran) = 2
  /\ store[Failing] = "invalid"
  /\ store[Ran[1]] /= Start0[Ran[1]]

\* C12: when a migration action fails with a SafeMigrationError, the record of
\* that migration is exactly what it was before the attempt, the batch halts
\* with an ImmigrationError like on any failure, and (the history having no
\* invalid record before) the same migrate called next is not rejected with "is
\* in an invalid state".
C12_SafeFailure ==
  /\ result[Caller].kind = "safe_failed"
     => /\ store[Failing] = Start0[Failing]
        /\ BatchHalted
  /\ (Called /\ Req.again = "safe")
     => /\ \A n \in Names : Start0[n] /= "invalid"
        /\ result[Caller].kind /= "invalid"

\* After a safe failure the same migrate was called again and ran the
\* migration, this time to the end.
C12_Witness ==
  /\ Settled
  /\ Req.again = "safe"
  /\ result[Caller].kind = "ok"
  /\ Ran /= <<>>
  /\ store /= Start0

(* ------------------------ NO_ATTEMPT and dry run ----------------------- *)

\* shouldTry, evaluated on what the call found, returns NO_ATTEMPT: the
\* validation passes and no file is pending, or the call is a dry run.
NoAttempt0 ==
  /\ Validate(Window0, dir, Req) = "ok"
  /\ LET l == PlanFiles(Window0, dir, Req)
     IN ~l.err /\ (l.files = <<>> \/ Req.dryRun)

\* The call has not gone beyond shouldTry: lock() and unlock() were not called.
LockUntouched ==
  /\ nlock[Caller] = 0 /\ nunlock[Caller] = 0
  /\ pc[Caller] \in {"history", "validate", "plan", "done"}

\* C13: if shouldTry returns NO_ATTEMPT (nothing pending, or dry run), the call
\* never calls lock() or unlock(), and migrate resolves with the empty list.
C13_NoAttempt ==
  (Called /\ NoAttempt0)
  => /\ LockUntouched
     /\ Settled => result[Caller] = Resolved(<<>>)

\* A real migrate that found nothing pending on a history that is not empty,
\* while the lock file of somebody else exists.
C13_Witness ==
  /\ Settled /\ RealCall(Req) /\ NoAttempt0
  /\ Start0 /= EmptyStore
  /\ lockfile
  /\ result[Caller] = Resolved(<<>>)

\* The names of the migrations the call handed to exec (started or skipped).
RECURSIVE Attempted(_)
Attempted(es) ==
  IF es = <<>> THEN <<>>
  ELSE (IF Head(es).type \in {"start", "skip"} THEN <<Head(es).name>> ELSE <<>>)
         \o Attempted(Tail(es))

IsPrefix(s, t) == Len(s) <= Len(t) /\ s = SubSeq(t, 1, Len(s))

\* C14: a dry run never calls lock(), never invokes an action and never changes
\* history, and emits nothing but plan events; the real run of the same request
\* that follows it hands to exec the migrations of the plan events, in that
\* order: a prefix of them if it fails, all of them if it resolves.
C14_DryRun ==
  /\ (Called /\ Req.dryRun)
     => /\ LockUntouched
        /\ Ran = <<>>
        /\ store = Start0
        /\ \A i \in 1..Len(events[Caller]) : events[Caller][i].type = "plan"
        /\ Settled => result[Caller].files = <<>>
  /\ (Called /\ Req.again = "previewed")
     => /\ IsPrefix(Attempted(events[Caller]), Req.preview)
        /\ (Settled /\ result[Caller].kind = "ok")
           => /\ Attempted(events[Caller]) = Req.preview
              /\ result[Caller].files = Req.preview

\* The real run after its dry run: it ran the two migrations the dry run had
\* announced.
C14_Witness ==
  /\ Settled
  /\ Req.again = "previewed"
  /\ Len(Req.preview) = 2
  /\ result[Caller].kind = "ok"
  /\ Ran = Req.preview

(* --------------------------- retries of lock() ------------------------- *)

\* The call has waited for the lock at least once.
Waited(p) == \E i \in 1..Len(events[p]) : events[p][i].type = "wait"

\* The history the process read last shows that the work of its request (an
\* up --all or a down --all) has been done: every file is recorded valid, or no
\* record is left.
WorkDone(p) ==
  IF IsDown(call[p]) THEN hist[p] = <<>>
  ELSE /\ Files /= <<>>
       /\ [i \in 1..Len(hist[p]) |-> hist[p][i].name] = Reverse(Files)
       /\ \A i \in 1..Len(hist[p]) : hist[p][i].valid

\* One step of a process: on a LockRetryError below maxWait the call waits;
\* when the wait is over it starts again with shouldTry (the history is read
\* anew); lock() is only ever called from there.
C15_Step(p) ==
  /\ (/\ pc[p] = "lock" /\ pc'[p] /= "lock"
      /\ LockAttempt(lockfile) = "LockRetryError"
      /\ elapsed'[p] < MaxWait
      /\ result'[p].kind /= "lock_error")
     => /\ pc'[p] = "wait"
        /\ Waited(p)'
        /\ nlock'[p] = nlock[p]
  /\ (pc[p] = "wait" /\ pc'[p] /= "wait")
     => /\ pc'[p] = "history"
        /\ UNCHANGED shared
  /\ (pc'[p] = "lock" /\ pc[p] /= "lock") => pc[p] = "plan"

C15_WaitsAndReevaluates == [][\A p \in AllProcs : C15_Step(p)]_vars

\* A retry that read a history showing the work done goes no further than
\* shouldTry: it does not call lock(), and resolves with [].
RetryIsNoOp(p) ==
  (Waited(p) /\ WorkDone(p) /\ pc[p] /= "history")
  => /\ pc[p] \in {"validate", "plan", "done"}
     /\ nlock[p] = 0
     /\ pc[p] = "done" => result[p] = Resolved(<<>>)

\* C15: after a LockRetryError below maxWait the call re-evaluates shouldTry
\* from scratch, and if it finds that another process has completed the pending
\* work, the retry ends as a no-op without taking the lock.
C15_RetryNoOp == \A p \in AllProcs : RetryIsNoOp(p)

\* C15 for up: there the statement holds.
C15_RetryNoOp_Up == \A p \in AllProcs : ~IsDown(call[p]) => RetryIsNoOp(p)

\* One process waited while the other ran every migration up; its retry found
\* nothing left and resolved without the lock.
C15_Witness ==
  \E p, q \in AllProcs :
    /\ p /= q
    /\ pc[p] = "done" /\ result[p] = Resolved(<<>>)
    /\ Waited(p) /\ WorkDone(p) /\ nlock[p] = 0
    /\ pc[q] = "done" /\ result[q].kind = "ok" /\ result[q].files = Files
    /\ ~IsDown(call[p])
    /\ store = ValidStore(Range(Files))

\* One step of the caller at lock(), as C16 describes it.
C16_Step ==
  (/\ pc[Caller] = "lock" /\ pc'[Caller] /= "lock"
   /\ LockAttempt(lockfile) /= "acquired"
   /\ elapsed'[Caller] >= MaxWait \/ result'[Caller].kind = "lock_error")
  => /\ pc'[Caller] = "done"
     /\ LockFailed'

\* A call that lock() made fail is settled, and touched nothing.
C16_Abandoned ==
  LockFailed
  => /\ Settled
     /\ Untouched
     /\ result[Caller].kind = "LockRetryError"
        => lockfile /\ elapsed[Caller] >= MaxWait

\* C16: if lock() fails with an error that is not a LockRetryError, or with a
\* LockRetryError once the elapsed wait has reached maxWait, the call rejects
\* with that error and is over (no further attempt), having invoked no action,
\* taken no lock and changed no record.
C16_LockGivenUp == []C16_Abandoned /\ [][C16_Step]_vars

\* The lock file of somebody else stayed: the call waited, retried and gave up
\* with LockRetryError, its plan unexecuted.
C16_Witness ==
  /\ Settled
  /\ result[Caller].kind = "LockRetryError"
  /\ Waited(Caller)
  /\ plan[Caller] /= <<>>
  /\ Untouched

(* ------------------------- liveness of acquire ------------------------- *)

\* C17 as stated: a process whose lock() lost and that waits eventually holds
\* the lock or has stopped with the LockRetryError.
C17_Liveness_Original ==
  \A p \in AllProcs :
    (pc[p] = "wait")
      ~> (InLocked(p) \/ (pc[p] = "done" /\ result[p].kind = "LockRetryError"))

\* How a call that waited and never held the lock can have ended: with the
\* LockRetryError once maxWait has elapsed, or because a re-evaluated shouldTry
\* found nothing to do or rejected, or by another error of lock().
C17_Outcomes ==
  \A p \in AllProcs :
    (pc[p] = "done" /\ Waited(p) /\ nlock[p] = 0)
    => \/ result[p].kind = "LockRetryError" /\ elapsed[p] >= MaxWait
       \/ result[p] = Resolved(<<>>)
       \/ result[p].kind \in ConsistencyErrors \cup {"lock_error"}

\* C17 (amended): a process whose lock() attempt loses to another holder
\* eventually acquires the lock, or stops with the LockRetryError once maxWait
\* has elapsed, or ends without the lock because its re-evaluated shouldTry
\* finds nothing left to do or rejects (or lock() fails otherwise); acquire
\* never retries forever.
C17_Liveness ==
  /\ \A p \in AllProcs : (pc[p] = "wait") ~> (InLocked(p) \/ pc[p] = "done")
  /\ []C17_Outcomes

\* A process that lost and waited holds the lock now.
C17_Witness ==
  \E p \in AllProcs : Waited(p) /\ pc[p] = "running" /\ holder = {p}

(* ----------------------- the lock and the history ---------------------- *)

\* C18: the batch the work function executes is the one shouldTry computes,
\* and validates, from the history as it is while the lock is held: when the
\* lock has just been taken, the plan is what validation and planning give on
\* the store as it is then.
C18_PlanUnderLock ==
  \A p \in AllProcs :
    (pc[p] = "exec" /\ idx[p] = 0 /\ Invoked(events[p]) = <<>>)
    => LET h == History(store, HistoryQuery(call[p]))
           l == PlanFiles(h, dir, call[p])
       IN /\ Validate(h, dir, call[p]) = "ok"
          /\ ~l.err
          /\ l.files = plan[p]

\* The caller is in the locked section of acquire, the lock file being its own.
HeldByCaller == lockfile /\ holder = {Caller} /\ InLocked(Caller)

\* The step takes or releases the lock as acquire does: lock() before the work
\* function, unlock() after it.
AcquireStep ==
  \/ pc[Caller] = "lock" /\ pc'[Caller] = "exec" /\ ~lockfile /\ lockfile'
  \/ pc[Caller] = "unlock" /\ pc'[Caller] = "done" /\ ~lockfile'

\* C19 as stated: no step changes a record unless the lock is held by the
\* process that changes it, and no step takes or releases the lock but the
\* lock() and unlock() of acquire.
C19_LockDiscipline_Original ==
  [][/\ store' /= store => HeldByCaller /\ HeldByCaller'
     /\ (lockfile' /= lockfile \/ holder' /= holder) => AcquireStep]_vars

\* C19 (amended): every record migrate itself writes or removes is changed
\* while the calling process holds the lock, and migrate takes and releases the
\* lock only through acquire; the public operations update (force), remove,
\* lock and unlock act on the store directly: update and remove change a
\* record without taking the lock, whether or not it is held.
C19_LockDiscipline ==
  [][/\ (store' /= store /\ ~Quiet)
        => /\ HeldByCaller /\ HeldByCaller'
           /\ pc[Caller] = "running"
     /\ ((lockfile' /= lockfile \/ holder' /= holder) /\ ~Quiet) => AcquireStep
     /\ (store' /= store /\ Quiet) => UNCHANGED <<lockfile, holder>>]_vars

\* The caller holds the lock and has changed a record in this batch.
C19_Witness ==
  /\ HeldByCaller
  /\ pc[Caller] = "running" /\ idx[Caller] >= 1
  /\ store /= Start0

(* ---------------------------- option checks --------------------------- *)

\* Neither or both of `to` and `all` are given, or check < 1.
BadOptions == (Req.all <=> Req.to /= NoName) \/ Req.check < 1

\* C20: a migrate call with neither or both of `to` and `all`, or with
\* check < 1, is rejected with the ImmigrationError of the option checks at
\* once: it is never seen in progress, has read no history, listed no file,
\* emitted no event, not called lock() or unlock(), and left history as it was.
C20_UsageError ==
  (pc[Caller] /= "idle" /\ BadOptions)
  => /\ Settled
     /\ result[Caller] = Rejected("usage")
     /\ hist[Caller] = <<>> /\ plan[Caller] = <<>> /\ events[Caller] = <<>>
     /\ nlock[Caller] = 0 /\ nunlock[Caller] = 0
     /\ store = Start0

\* Both `to` and `all` were given, with migrations pending.
C20_Witness ==
  /\ Settled
  /\ Req.all /\ Req.to \in dir /\ Req.check >= 1
  /\ Req.to \notin Recorded0
  /\ result[Caller] = Rejected("usage")

(* --------------------- claims on list and history --------------------- *)

\* The files of the directory that have the configured extension.
Listable == {e \in dir : HasExtension(e)}

\* The options of the direct call.
Opts == op.options

\* The boundary is given and names a migration.
Named(b) == Truthy(b)

\* The names of S inside the inclusive window [gte, lte] of the options.
InWindow(S, o) ==
  {n \in S : (Named(o.gte) => n >= o.gte) /\ (Named(o.lte) => n <= o.lte)}

\* A boundary of the options names something that is not in S.
MissingBoundary(S, o) ==
  \/ Named(o.gte) /\ o.gte \notin S
  \/ Named(o.lte) /\ o.lte \notin S

\* s holds names of S in the order asked for, and they are the front of S in
\* that order: every name of S that s leaves out comes after all of s.
Front(s, S, reverse) ==
  /\ Range(s) \subseteq S
  /\ IF reverse THEN Descending(s) ELSE Ascending(s)
  /\ \A m \in Range(s), n \in S \ Range(s) : IF reverse THEN m > n ELSE m < n

\* What C21 says of a call of list: an error when a boundary is missing, and
\* else the window in the order asked for (all of it when no count is given).
ListAsSpecified ==
  IF MissingBoundary(Listable, Opts)
  THEN op.err
  ELSE /\ ~op.err
       /\ Front(op.out, InWindow(Listable, Opts), Opts.reverse)
       /\ Opts.count = Undef => Range(op.out) = InWindow(Listable, Opts)

\* C21: for every file set and every options, list yields the files with the
\* extension, ascending, restricted to the inclusive window [gte, lte] and
\* reversed when `reverse` is set; it fails when gte or lte names a file that is
\* not in the file set, and yields the empty sequence, not an error, when the
\* window is empty.
C21_List == op.name = "list" => ListAsSpecified

\* The same of the calls on a directory that has a migration file, or with an
\* upper boundary.
C21_List_SomeFile ==
  (op.name = "list" /\ (Listable /= {} \/ Named(Opts.lte))) => ListAsSpecified

\* list has answered a call that gave both boundaries and asked for the
\* reverse order.
C21_Witness ==
  /\ op.name = "list" /\ ~op.err /\ Len(op.out) >= 2
  /\ Named(Opts.gte) /\ Named(Opts.lte) /\ Opts.reverse

\* The names a call of list or of history yielded, in order.
Yielded ==
  IF op.name = "history" THEN [i \in 1..Len(op.out) |-> op.out[i].name]
  ELSE op.out

\* The window of the call, before reversal and count: of the files for list,
\* of the recorded names for history (for which "" is a boundary like any other
\* name, below every name).
WindowOf ==
  IF op.name = "history"
  THEN {n \in Recorded(store) :
          /\ Opts.gte /= Undef => n >= Opts.gte
          /\ Opts.lte /= Undef => n <= Opts.lte}
  ELSE InWindow(Listable, Opts)

\* A call of list or of history has yielded its sequence.
Answered == op.name \in {"list", "history"} /\ ~op.err

\* The call yielded the first n names of its window, in the order asked for.
FirstOfWindow(n) ==
  /\ Len(Yielded) = Min2(n, Cardinality(WindowOf))
  /\ Front(Yielded, WindowOf, Opts.reverse)

\* C22: for list and for history, count = n keeps at most n entries, taken from
\* the front of the sequence after the window and the reversal: the n smallest
\* names when reverse is false, the n largest when it is true.
C22_Count ==
  (Answered /\ Opts.count /= Undef) => FirstOfWindow(Opts.count)

\* The same of history with any count, and of list with a count of at least 1.
C22_Count_Positive ==
  (Answered /\ Opts.count /= Undef /\ (op.name = "history" \/ Opts.count >= 1))
    => FirstOfWindow(Opts.count)

\* The names of a sequence of executions.
NamesOf(executions) == [i \in 1..Len(executions) |-> executions[i].name]

\* list and history, given the options of the call, agree: neither fails and
\* they yield the same names (history never fails, so they cannot both fail).
\* The one that was called is taken as it answered.
ListAndHistoryAgree ==
  IF op.name = "list"
  THEN ~op.err /\ op.out = NamesOf(History(store, Opts))
  ELSE LET l == List(dir, Opts) IN ~l.err /\ Yielded = l.files

\* C23: history honours the gte/lte/count/reverse semantics of list: when the
\* recorded names are the file names, history(options) and list(options) yield
\* the same sequence of names, or both fail, for every options, a count of 0 and
\* a boundary that is not present included.
C23_SameSemantics ==
  (op.name \in {"list", "history"} /\ Recorded(store) = Listable)
    => ListAndHistoryAgree

\* The same of the options whose count is not 0, whose lte is not "" and whose
\* boundaries are present, on a directory that has a migration file.
C23_SameSemantics_Present ==
  (/\ op.name \in {"list", "history"} /\ Recorded(store) = Listable
   /\ Listable /= {} /\ ~MissingBoundary(Listable, Opts)
   /\ Opts.count /= 0 /\ Opts.lte /= NoName)
    => ListAndHistoryAgree

(* ------------------------ claims on the store ------------------------- *)

\* The step is a call of the named method that the file system let through.
Did(name) == op'.name = name /\ op'.err /= "error"

\* C24: lock() on an unheld store succeeds and makes isLocked() true; lock() on
\* a held store fails with a LockRetryError and leaves the lock held;
\* isLocked() is false on a fresh store and after unlock(); unlock() on an
\* unlocked store is no error and leaves the store unlocked.
C24_LockContract ==
  [][/\ (Did("lock") /\ ~lockfile) =>
          op'.err = "none" /\ lockfile' /\ IsLocked(lockfile')
     /\ (Did("lock") /\ lockfile) => op'.err = "LockRetryError" /\ lockfile'
     /\ (Did("isLocked") /\ op.name = "lock" /\ op.err = "none") => op'.ret
     /\ (Did("isLocked") /\ op.name \in {"none", "unlock"}) => ~op'.ret
     /\ Did("unlock") => op'.err = "none" /\ ~lockfile' /\ ~IsLocked(lockfile')
    ]_vars

\* lock() has been refused on a store that is held, and the store is still
\* held.
C24_Witness == op.name = "lock" /\ op.err = "LockRetryError" /\ lockfile

\* isLocked() has answered true.
C24_Witness_IsLocked == op.name = "isLocked" /\ op.ret

\* C25: update(name, valid, date) is an upsert: afterwards show(name) returns a
\* record with that name and valid flag, whether or not there was a record
\* before, and every other record is unchanged; show(name) returns undefined for
\* a name that has no record.
C25_Upsert ==
  [][/\ Did("update") =>
          /\ Show(store', op'.arg).found
          /\ Show(store', op'.arg).execution =
               [name |-> op'.arg, valid |-> op'.valid]
          /\ \A m \in Names \ {op'.arg} : store'[m] = store[m]
     /\ (Did("show") /\ op.name = "update" /\ op'.arg = op.arg) =>
          /\ op'.ret.found
          /\ op'.ret.execution = [name |-> op.arg, valid |-> op.valid]
     /\ (Did("show") /\ ~Exists(store, op'.arg)) => ~op'.ret.found
    ]_vars

\* show has returned a record that an update wrote with valid = false.
C25_Witness ==
  op.name = "show" /\ op.ret.found /\ ~op.ret.execution.valid

\* C26: remove(name) returns true iff a record of that name existed, and then
\* the record is deleted by the call; it returns false and changes nothing when
\* there is no such record; it never changes another record.
C26_Remove ==
  [][Did("remove") =>
       /\ op'.ret = Exists(store, op'.arg)
       /\ ~Exists(store', op'.arg)
       /\ ~op'.ret => store' = store
       /\ \A m \in Names \ {op'.arg} : store'[m] = store[m]
    ]_vars

\* remove has deleted a record and left another in place.
C26_Witness ==
  /\ op.name = "remove" /\ op.ret /\ ~Exists(store, op.arg)
  /\ \E m \in Names : Exists(store, m)

(* ------------------ claims on validation and on exec ------------------ *)

\* The ImmigrationErrors of a consistency violation: a file that is required
\* but was not executed, a file that is missing, a record that is invalid.
Violations == {"not_run", "not_found", "invalid"}

\* The step ends the call of p with a consistency violation.
Aborts(p) ==
  pc[p] /= "done" /\ pc'[p] = "done" /\ result'[p].kind \in Violations

\* The call of p that the step ends invoked no action and never had the lock,
\* and the step changes neither the history nor the lock.
AbortsUntouched(p) ==
  /\ UNCHANGED shared
  /\ Invoked(events'[p]) = <<>>
  /\ nlock'[p] = 0 /\ nunlock'[p] = 0
  /\ p \notin holder'

\* C27 as stated: a consistency violation makes migrate reject without having
\* called lock(), without invoking any action and with the history unchanged.
C27_Abort_Original ==
  [][\A p \in AllProcs : Aborts(p) => (AbortsUntouched(p) /\ ~Waited(p)')]_vars

\* C27, corrected: a consistency violation makes migrate reject without ever
\* having held the lock (a lock() it called before the violation appeared was
\* refused), without invoking any action and without changing the history.
C27_Abort ==
  [][\A p \in AllProcs : Aborts(p) => AbortsUntouched(p)]_vars

\* A call was refused the lock, waited, and on its next attempt found a
\* consistency violation.
C27_Witness ==
  \E p \in AllProcs :
    pc[p] = "done" /\ result[p].kind \in Violations /\ Waited(p)

\* The same of the single caller: nothing has changed since the call was made.
C27_Abort_Seq ==
  (Settled /\ result[Caller].kind \in Violations)
    => (Untouched /\ nunlock[Caller] = 0 /\ ~Waited(Caller))

\* The last event the call of p emitted.
LastEvent(p) == events[p][Len(events[p])]

\* The step is exec coming to a migration and emitting `type` for it.
Emits(p, type) ==
  /\ pc[p] = "exec" /\ idx[p] < Len(plan[p])
  /\ Len(events'[p]) = Len(events[p]) + 1
  /\ LastEvent(p)'.type = type

\* The migrations the caller's call has skipped have the record the call found.
SkippedKept ==
  \A i \in 1..Len(events[Caller]) :
    events[Caller][i].type = "skip"
      => store[events[Caller][i].name] = Start0[events[Caller][i].name]

\* C28: when a migration has no action for the direction, exec emits `skip` for
\* it, neither creates nor updates nor removes its record, and goes on to the
\* next migration of the batch.
C28_Skip ==
  [][/\ Emits(Caller, "skip") =>
          /\ LastEvent(Caller)'.name = Current(Caller)
          /\ store' = store
          /\ result' = result
          /\ pc'[Caller] = "exec" /\ idx'[Caller] = idx[Caller] + 1
          /\ idx'[Caller] < Len(plan[Caller]) =>
               Current(Caller)' = plan[Caller][idx[Caller] + 2]
     /\ SkippedKept'
    ]_vars

\* A migration of the batch was skipped, its record is as before, and the
\* migration after it was run.
C28_Witness ==
  /\ SkippedKept
  /\ \E i \in 1..Len(events[Caller]), j \in 1..Len(events[Caller]) :
       /\ i < j
       /\ events[Caller][i].type = "skip"
       /\ events[Caller][j].type = "end" /\ events[Caller][j].success

\* The caller's call came to a value that is not a function.
NotCallable == result[Caller].kind = "not_function"

\* What C29 says of a call that came to a value that is not a function: it took
\* the lock once and only goes on to release it; the migration at fault and the
\* ones after it in the plan were not started or skipped; once the call has
\* ended, unlock() has been called and the lock is free.
HaltedAndReleased ==
  /\ pc[Caller] \in {"unlock", "done"}
  /\ nlock[Caller] = 1
  /\ idx[Caller] < Len(plan[Caller])
  /\ \A i \in (idx[Caller] + 1)..Len(plan[Caller]) :
       plan[Caller][i] \notin Range(Attempted(events[Caller]))
  /\ ~Waited(Caller)
  /\ Settled => (nunlock[Caller] = 1 /\ ~lockfile /\ holder = {})

\* C29: when the value exported for the direction is defined but not callable,
\* exec fails with an ImmigrationError, runs none of the remaining migrations,
\* is not retried by acquire, and the lock is still released.
C29_NotFunction ==
  [][/\ NotCallable' => HaltedAndReleased'
     /\ (~NotCallable /\ NotCallable') =>
          /\ pc[Caller] = "exec" /\ pc'[Caller] = "unlock"
          /\ UNCHANGED <<shared, events, idx>>
     /\ (NotCallable /\ pc[Caller] = "unlock") =>
          /\ pc'[Caller] = "done" /\ result' = result
          /\ nunlock'[Caller] = nunlock[Caller] + 1
          /\ ~lockfile' /\ store' = store /\ events' = events
    ]_vars

\* A call ran a migration, came to a value that is not a function with a
\* migration still to go, and has ended.
C29_Witness ==
  /\ Settled /\ NotCallable
  /\ Ran /= <<>>
  /\ idx[Caller] + 1 < Len(plan[Caller])

\* In the events of p every `start` has its `end` right after it: no action is
\* invoked while another has not completed.
OneAtATime(p) ==
  /\ \A i \in 1..(Len(events[p]) - 1) :
       events[p][i].type = "start"
         => /\ events[p][i + 1].type = "end"
            /\ events[p][i + 1].name = events[p][i].name
  /\ (events[p] /= <<>> /\ LastEvent(p).type = "start") => pc[p] = "running"

\* The migrations exec came to are the first of the plan, in the order of the
\* plan, and the plan is ascending for up and descending for down.
InPlannedOrder(p) ==
  /\ IsPrefix(Attempted(events[p]), plan[p])
  /\ IF IsDown(call[p])
     THEN Descending(plan[p]) /\ Descending(Invoked(events[p]))
     ELSE Ascending(plan[p]) /\ Ascending(Invoked(events[p]))

\* When exec invokes an action, the migration before it in the plan has
\* completed: it was skipped, or its action succeeded and its record has been
\* updated (up) or removed (down).
PreviousCompleted(p) ==
  idx[p] >= 1 =>
    /\ LastEvent(p).name = plan[p][idx[p]]
    /\ \/ LastEvent(p).type = "skip"
       \/ /\ LastEvent(p).type = "end" /\ LastEvent(p).success
          /\ store[plan[p][idx[p]]] =
               (IF IsDown(call[p]) THEN "absent" ELSE "valid")

\* C30: within one process the migrations of a batch run strictly one after the
\* other: the action of migration k+1 is not started until the action of
\* migration k has completed and its history update or remove has finished,
\* and the actions are invoked in the planned order, ascending for up and
\* descending for down.
C30_Sequential ==
  [][\A p \in AllProcs :
       /\ OneAtATime(p)'
       /\ InPlannedOrder(p)'
       /\ Emits(p, "start") => PreviousCompleted(p)
    ]_vars

\* The call has run one migration to its end and has invoked the action of the
\* next one.
C30_Witness ==
  /\ pc[Caller] = "running"
  /\ Len(Ran) >= 2
  /\ store[Ran[1]] /= Start0[Ran[1]]

(* --------------------------- claims on force -------------------------- *)

\* The store has no record that is invalid.
AllValid(contents) == \A n \in Names : contents[n] /= "invalid"

\* The step is the force of the record of n.
Forces(n) ==
  Quiet /\ op'.name = "force" /\ op'.arg = n /\ store' /= store

\* C31: force marks the record valid without invoking the migration's up or
\* down action, and changes nothing else; a migrate that follows the force of
\* the only invalid record is not rejected with the invalid-state error.
C31_Force ==
  [][/\ \A n \in Names : Forces(n) =>
          /\ store' = [store EXCEPT ![n] = "valid"]
          /\ events' = events
          /\ UNCHANGED <<dir, lockfile, holder>>
          /\ AllValid(store') =>
               \A r \in Requests :
                 Validate(History(store', HistoryQuery(r)), dir, r) /= "invalid"
     /\ (result'[Caller].kind = "invalid") => ~AllValid(Start0')
    ]_vars

\* A record was forced, and a migrate called on the store with that record
\* valid and no invalid record has run a migration and resolved.
C31_Witness ==
  /\ op.name = "force" /\ Start0[op.arg] = "valid" /\ AllValid(Start0)
  /\ Settled /\ result[Caller].kind = "ok" /\ Ran /= <<>>

(* ------------------ claims on the plan and the history ---------------- *)

\* The lookback window of the call: the `check` greatest recorded names of its
\* range (the names not below X for a down --to X, every name otherwise).
Lookback ==
  LET inRange == {n \in Recorded0 : (IsDown(Req) /\ Truthy(X)) => n >= X}
  IN {n \in inRange : Cardinality({m \in inRange : m > n}) < Req.check}

\* Every record of the lookback window is valid and has its file, and no file
\* the validation lists is without record.
CleanWindow ==
  /\ Gaps = {}
  /\ \A n \in Lookback : Start0[n] = "valid" /\ n \in dir

\* C32: validation inspects only the `check` newest records of the range of the
\* call: the invalid-state and the missing-file error come from a record inside
\* that window, and a record that is invalid or has lost its file outside the
\* window does not block the migrate.
C32_Lookback ==
  (Settled /\ ~UsageError(Req))
  => /\ WindowNames = Lookback
     /\ result[Caller].kind = "invalid"
          => \E n \in Lookback : Start0[n] = "invalid"
     /\ result[Caller].kind = "not_found" => \E n \in Lookback : n \notin dir
     /\ CleanWindow => result[Caller].kind \notin Violations

\* A call ran a migration and resolved although a record outside its lookback
\* window is invalid or has lost its file.
C32_Witness ==
  /\ Settled /\ ~UsageError(Req) /\ CleanWindow
  /\ \E n \in Recorded0 \ Lookback : Start0[n] = "invalid" \/ n \notin dir
  /\ result[Caller].kind = "ok" /\ Ran /= <<>>

\* How many times the action of n was invoked in the events es.
RECURSIVE Starts(_, _)
Starts(es, n) ==
  IF es = <<>> THEN 0
  ELSE (IF Head(es).type = "start" /\ Head(es).name = n THEN 1 ELSE 0)
         + Starts(Tail(es), n)

\* Every action the call of p invoked so far succeeded, and every migration it
\* came to had an up function.
AllSucceeded(p) ==
  /\ \A i \in 1..Len(events[p]) :
       events[p][i].type /= "skip" /\ events[p][i].success
  /\ result[p].kind \in {"none", "ok"}

\* How many times the up action of n was invoked, by all processes.
TotalStarts(n) ==
  LET Total[P \in SUBSET AllProcs] ==
        IF P = {} THEN 0
        ELSE LET p == CHOOSE q \in P : TRUE
             IN Starts(events[p], n) + Total[P \ {p}]
  IN Total[AllProcs]

\* C33: when two processes concurrently call migrate("up", {all: true}) on the
\* empty history and every action succeeds, the up action of each migration is
\* invoked exactly once in total: never twice, and once when both calls have
\* ended.
C33_NoDoubleExecution ==
  (\A p \in AllProcs : AllSucceeded(p))
  => \A n \in Range(Files) :
       /\ TotalStarts(n) <= 1
       /\ (\A p \in AllProcs : pc[p] = "done") => TotalStarts(n) = 1

\* C34: migrate("down") never invokes the down action of a migration that has
\* no record; a down --all on the empty history, and a down --to X with X newer
\* than the latest record, invoke nothing and resolve with the empty list.
C34_DownRecorded ==
  (pc[Caller] /= "idle" /\ IsDown(Req) /\ ~UsageError(Req))
  => /\ \A n \in Range(Ran) : n \in Recorded0
     /\ (Settled /\ \A n \in Recorded0 : Truthy(X) /\ n < X /\ X \in dir)
          => Ran = <<>> /\ result[Caller] = Resolved(<<>>)
     /\ (Settled /\ Recorded0 = {} /\ Req.all /\ Range(Files) /= {})
          => Ran = <<>> /\ result[Caller] = Resolved(<<>>)

\* The same of the calls that find a record at or above their target (any
\* record, for a down --all) and whose `check` is greater than the number of
\* migration files.
C34_DownRecorded_Covered ==
  (/\ pc[Caller] /= "idle" /\ IsDown(Req) /\ ~UsageError(Req)
   /\ Lookback /= {}
   /\ Req.check > Cardinality(Names))
  => \A n \in Range(Ran) : n \in Recorded0

\* The call is a migrate("up", {all: true}) that has ended and that repeats
\* the caller's previous call, which resolved; nothing happened in between.
SecondUpAll ==
  /\ Settled
  /\ Req.direction = "up" /\ Req.all /\ RealCall(Req)
  /\ Req.again \in {"resolved", "validated", "clean"}

\* C35: after a migrate("up", {all: true}) that resolved, the file set being
\* unchanged and no one else acting, a second migrate("up", {all: true})
\* resolves with the empty list, invokes no action and raises no consistency
\* error, also when the first call skipped a migration that has no up action.
C35_UpTwice ==
  SecondUpAll => (result[Caller] = Resolved(<<>>) /\ Ran = <<>>)

\* The same when the first call skipped no migration: the second call does
\* nothing at all.
C35_UpTwice_NoSkip ==
  (SecondUpAll /\ Req.again /= "resolved") => NoOp

\* The recorded names are an initial segment of the ascending file list.
PrefixOfFiles ==
  /\ Recorded(store) \subseteq Range(Files)
  /\ \A n \in Recorded(store), f \in Range(Files) :
       f < n => f \in Recorded(store)

\* C36: starting from the empty history, after any sequence of migrate("up")
\* and migrate("down") calls of one process (any `to` or `all`, the actions
\* succeeding or failing) over a fixed file set in which every migration has
\* both actions, the recorded names are an initial segment of the ascending
\* file list.
C36_PrefixHistory == PrefixOfFiles

\* The records that are invalid.
Invalid(contents) == {n \in Names : contents[n] = "invalid"}

\* C37: when the history is changed only through migrate, at every moment at
\* most one record is invalid, and it is the record with the greatest name of
\* the history.
C37_OneInvalid ==
  /\ Cardinality(Invalid(store)) <= 1
  /\ \A n \in Invalid(store), m \in Recorded(store) : m <= n

\* A step in which the lock() of p rejects: the attempt leaves lock() without
\* entering the work function.
LockRejects(p) == pc[p] = "lock" /\ pc'[p] \in {"wait", "done"}

\* C38: a contender never releases the lock of somebody else: an attempt whose
\* lock() rejects, busy or fatal, calls no unlock(), and the lock file and its
\* holder are after the attempt what they were before it.
C38_NoForeignUnlock ==
  [][\A p \in AllProcs :
       LockRejects(p) => /\ nunlock'[p] = nunlock[p]
                         /\ lockfile' = lockfile
                         /\ holder' = holder]_vars

\* A contender gave up with LockRetryError without a single unlock(), and the
\* other process still holds the lock inside its work function.
C38_Witness ==
  \E p, q \in AllProcs :
    /\ p /= q
    /\ pc[p] = "done" /\ result[p].kind = "LockRetryError"
    /\ nunlock[p] = 0
    /\ holder = {q} /\ lockfile
    /\ pc[q] \in {"exec", "running"}

(* ------------------- claims on the chain of updateStore --------------- *)

\* What the file holds when the first k calls have been applied one after the
\* other, in call order, the calls whose write failed left out.
RECURSIVE Applied(_, _, _)
Applied(calls, outcome, k) ==
  IF k = 0 THEN EmptyStore
  ELSE LET before == Applied(calls, outcome, k - 1)
       IN  IF outcome[k] = "rejected" THEN before
           ELSE Apply(calls[k], before)

\* C39: the update and remove calls issued on one store instance are applied
\* as read-modify-write steps in call order, so that no change of a call is
\* lost, and a step that failed does not keep the calls chained after it from
\* being applied: the file holds the changes of every settled call but the
\* failed ones.
C39_Serialized ==
  op.name = "updateStore"
  => store = Applied(op.calls, op.outcome, Len(op.outcome))

\* While no read and no write has failed, the file holds the changes of all
\* settled calls, in call order.
C39_Serialized_NoFault ==
  (/\ op.name = "updateStore"
   /\ \A i \in 1..Len(op.outcome) : op.outcome[i] = "written")
  => store = Applied(op.calls, op.outcome, Len(op.outcome))

\* A step whose write failed keeps every call chained after it from running.
C39_AfterFailure ==
  op.name = "updateStore"
  => \A i, j \in 1..Len(op.outcome) :
       (i < j /\ op.outcome[i] = "rejected") => op.outcome[j] = "notRun"

====
